---------------------------- MODULE Spec2Model ----------------------------
(***************************************************************************)
(* Staged script-loading optimizers of the mainthreads repository:         *)
(*   WixBlogListOptimizer       (src/wix-blog-list-optimizer.js)           *)
(*   WixProductPageOptimizer,                                              *)
(*   WixJSOptimizer             (src/wix-product-optimizer.js)             *)
(*                                                                         *)
(* One action is one run-to-completion task of the browser event loop: a   *)
(* lifecycle callback, a timer or idle callback, a load or error event of  *)
(* a script element, together with the promise continuations (microtasks)  *)
(* that it makes runnable.                                                 *)
(***************************************************************************)
EXTENDS Integers, Sequences, FiniteSets, TLC

(***************************************************************************)
(* Bounds of the model.                                                    *)
(***************************************************************************)
\* connectedCallback runs of the blog element (attach, re-attach)
MaxPasses == 2
\* script load failures that the history variable `failed' records
MaxFailures == 1
\* connectedCallback runs of each element of the product page
MaxConnects == 1
\* restartOptimization calls that restart the product optimizer
MaxRestarts == 1
\* reoptimize calls that pass the guard of the JS optimizer
MaxReoptimizes == 1
\* client-side navigations (changes of location.href) of the product page
MaxNavigations == 2
\* further connectedCallback runs of the JS optimizer's element, when the
\* element is attached to the document again
MaxReconnects == 1

Passes == 1..MaxPasses

(***************************************************************************)
(* Strings.  A script URL is kept as its directory and its last path       *)
(* segment, so that url.split('/').pop() is the field `file'.  The         *)
(* substring tests of the code (String.prototype.includes, the CSS         *)
(* selector [src*="..."]) are decided by the file name and by the table    *)
(* Fragments of the literal keywords the code searches for.                *)
(***************************************************************************)
Url(dir, file) == [dir |-> dir, file |-> file]

DirThunderbolt == "https://static.parastorage.com/services/wix-thunderbolt/dist"
DirReact == "https://static.parastorage.com/unpkg/react@18.3.1/umd"
DirRequire == "https://static.parastorage.com/unpkg/requirejs-bolt@2.3.6"
DirBlogOoi == "https://static.parastorage.com/services/communities-blog-ooi/1.2764.0"
DirFormApp == "https://static.parastorage.com/services/form-app/1.1863.0/client-viewer"
DirEditorElements == "https://static.parastorage.com/services/editor-elements-library/dist/thunderbolt"
DirSentry == "https://browser.sentry-cdn.com/7.120.3"
DirCartIcon == "https://static.parastorage.com/services/ecom-platform-cart-icon/1.1570.0"
\* a directory of the page's own, serving a file with a known name
DirForeign == "https://cdn.example.com/vendor"

FileReact == "react.production.min.js"
FileRequire == "requirejs.min.js"
FileConsent == "consentPolicy.c82a047f.chunk.min.js"
FileAnimations == "animations.67be3a64.chunk.min.js"
FileMain == "main.7120cb19.bundle.min.js"
FileCommons == "thunderbolt-commons.6e36e998.bundle.min.js"
FileBlogViewer == "BlogViewerWidgetNoCss.bundle.min.js"
FileGroup6 == "group_6.9a28cbeb.chunk.min.js"
FileFormApp == "form-app-wix-ricos-viewer.chunk.min.js"
FileProGallery == "rb_wixui.thunderbolt[ProGallery_Default].0cb576c2.bundle.min.js"
FileRichContent == "rb_wixui.thunderbolt[RichContentViewer].f51859d2.bundle.min.js"
FileMenu == "rb_wixui.thunderbolt_menu.069648f0.bundle.min.js"
FileSentry == "bundle.tracing.es5.min.js"
FileCartIcon == "CartIconViewerWidgetNoCss.bundle.min.js"

\* <<t, k>>: the keyword k occurs in the string t
Fragments ==
    { <<DirReact, "react">>, <<FileReact, "react">>,
      <<FileBlogViewer, "BlogViewerWidget">>,
      <<DirFormApp, "form-app">>, <<FileFormApp, "form-app">>,
      <<FileGroup6, "group_6">>, <<FileProGallery, "ProGallery">> }

\* url.split('/').pop()
Pop(url) == url.file

\* src.includes(s), script[src*="s"]
Includes(src, s) ==
    \/ s = src.file
    \/ <<src.dir, s>> \in Fragments
    \/ <<src.file, s>> \in Fragments

(***************************************************************************)
(* WixBlogListOptimizer: the URL lists of the constructor.                 *)
(***************************************************************************)
deferredScripts ==
    << Url(DirReact, FileReact), Url(DirRequire, FileRequire),
       Url(DirThunderbolt, FileConsent), Url(DirThunderbolt, FileAnimations) >>

mainScripts ==
    << Url(DirThunderbolt, FileMain), Url(DirThunderbolt, FileCommons) >>

optionalScripts ==
    << Url(DirBlogOoi, FileBlogViewer), Url(DirThunderbolt, FileGroup6),
       Url(DirFormApp, FileFormApp) >>

Range(s) == { s[i] : i \in DOMAIN s }

Min(S) == CHOOSE x \in S : \A y \in S : x <= y

\* list.some(url => src.includes(url.split('/').pop()))
MatchesAny(src, list) == \E i \in DOMAIN list : Includes(src, Pop(list[i]))

(***************************************************************************)
(* The document of the blog page.  A script element is                     *)
(*   [src, marked, by]: marked is the attribute data-blog-optimized, by is *)
(* 0 for a script of the page and p for one created by loadScript in pass  *)
(* p.  head and body list the script elements in document order; an        *)
(* element appended to the head precedes every script of the body.         *)
(***************************************************************************)
ScriptEl(src, by) == [src |-> src, marked |-> FALSE, by |-> by]

\* document.querySelectorAll('script[src]'), in document order
AllScriptEls(d) == d.head \o d.body

MarkEl(e) ==
    IF MatchesAny(e.src, deferredScripts \o mainScripts \o optionalScripts)
    THEN [e EXCEPT !.marked = TRUE] ELSE e

removeExistingScripts(d) ==
    [head |-> [i \in DOMAIN d.head |-> MarkEl(d.head[i])],
     body |-> [i \in DOMAIN d.body |-> MarkEl(d.body[i])]]

KeepUsed(e) == ~MatchesAny(e.src, optionalScripts)

handleUnusedScripts(d) ==
    [head |-> SelectSeq(d.head, KeepUsed), body |-> SelectSeq(d.body, KeepUsed)]

\* the check at the head of loadScript: the first script[src*="<file>"] of the
\* document exists and carries no data-blog-optimized attribute
AlreadyPresent(d, url) ==
    LET all == AllScriptEls(d)
        hits == { i \in DOMAIN all : Includes(all[i].src, Pop(url)) }
    IN  hits # {} /\ ~all[Min(hits)].marked

\* a cleanup with the selector of removeExistingScripts: every script whose
\* src names a file of the three lists goes
removeListedScripts(d) ==
    [head |-> SelectSeq(d.head, LAMBDA e :
                  ~MatchesAny(e.src, deferredScripts \o mainScripts \o optionalScripts)),
     body |-> SelectSeq(d.body, LAMBDA e :
                  ~MatchesAny(e.src, deferredScripts \o mainScripts \o optionalScripts))]

IsMarked(e) == e.marked

\* the cleanup timer of onOptimizationComplete
removeMarkedScripts(d) ==
    [head |-> SelectSeq(d.head, LAMBDA e : ~IsMarked(e)),
     body |-> SelectSeq(d.body, LAMBDA e : ~IsMarked(e))]


(***************************************************************************)
(* State of the blog page and of the WixBlogListOptimizer element.         *)
(***************************************************************************)
VARIABLES
    readyState,      \* document.readyState: "loading" or "interactive"
    hasRIC,          \* 'requestIdleCallback' in window
    blogMarkers,     \* some element matches [data-blog-viewer], .blog-viewer, [class*="blog"]
    formMarkers,     \* some element matches form, [data-form], [class*="form"]
    pageKind,        \* which scripts the page itself came with (fixed by Init)
    doc,             \* [head, body]: the script elements of the document
    links,           \* the <link> elements of the head, as [rel, href]
    isLoaded,        \* this.isLoaded
    started,         \* connectedCallback runs so far
    pc,              \* per pass: where its pipeline is suspended
    idx,             \* per pass: the loop index i of the suspended loop (from 1)
    inflight,        \* [pass, url]: script elements whose load or error event is due
    calls,           \* per pass: the URLs passed to loadScript, in call order
    failed,          \* [pass, url]: loads that ended in onerror (at most MaxFailures kept)
    trace,           \* per pass: the milestones of the pipeline, in order
    dispatched,      \* per pass: 'wix-blog-list-optimization-complete' events dispatched
    optPending,      \* passes whose on-demand idle callback is registered
    cleanupPending   \* passes whose 3000 ms cleanup timer is running

blogVars ==
    << readyState, hasRIC, blogMarkers, formMarkers, pageKind, doc, links,
       isLoaded, started, pc, idx, inflight, calls, failed, trace,
       dispatched, optPending, cleanupPending >>

(***************************************************************************)
(* State of the product page, to which a WixProductPageOptimizer and a     *)
(* WixJSOptimizer element are attached (src/wix-product-optimizer.js).     *)
(* A script of the page is [src, tag, lazy, asyncOrDefer, state]: tag is   *)
(* the attribute data-wix-optimized ("none" when absent), lazy is          *)
(* data-lazy-load="true", state is "loading", "loaded" or "failed".  A     *)
(* link of the head is [rel, href, opt], opt being                         *)
(* data-wix-optimized="true".                                              *)
(***************************************************************************)
VARIABLES
    hasIO,           \* 'IntersectionObserver' in window
    legacyReady,     \* script elements report readyState 'complete' once loaded
    headLinks,       \* the <link> elements of the head
    scripts,         \* the script[src] elements of the page, in document order
    prod,            \* the WixProductPageOptimizer element: its fields, and
                     \*   connects, starts, throws, pass (history)
    pStarts,         \* pending startSafeOptimization tasks (listener or timer)
    pRuns,           \* the monitorPerformance runs: [total, count, waiting, timers]
    pLazyTimers,     \* pending fallback timers whose observer is disconnected or absent
    pObservers,      \* connected IntersectionObservers (the timer of each is pending)
    pEvents,         \* 'wix-product-optimization-complete' events: [pass, via, detail]
    restarts,        \* restartOptimization calls that restarted
    js,              \* the WixJSOptimizer element: its fields, and history
    jStarts,         \* pending startOptimization tasks
    jRuns,           \* its monitorPerformance runs: [total, loaded, errors, waiting, timers]
    jVisTimers,      \* its pending fallback timers whose observer is disconnected or absent
    jObservers,      \* its connected IntersectionObservers (the timer of each is pending)
    jIdle,           \* pending loadOptionalScripts callbacks (idle or timer)
    jEvents,         \* 'wix-js-optimization-complete' events: [via, detail]
    reoptimizes,     \* reoptimize calls that went past the guard
    locationHref,    \* location.href: 0 at load, n after the n-th navigation
    lastUrl,         \* the module variable lastUrl
    navigationTimeout, \* the timer whose id navigationTimeout holds, if pending:
                     \*   [kind, url], kind "none", "handle" (300 ms) or
                     \*   "restart" (1500 ms, armed for url)
    navObserved,     \* URLs whose change handleNavigation saw with a completed
                     \*   optimizer element in the document (history)
    navRestarted     \* URLs whose restart timer called restartOptimization (history)

navVars == << locationHref, lastUrl, navigationTimeout, navObserved, navRestarted >>

pageVars ==
    << hasIO, legacyReady, headLinks, scripts, prod, pStarts, pRuns,
       pLazyTimers, pObservers, pEvents, restarts, js, jStarts, jRuns,
       jVisTimers, jObservers, jIdle, jEvents, reoptimizes, navVars >>

vars == << blogVars, pageVars >>

\* The part of the state that the pipeline of a pass reads and writes.
Cur ==
    [doc |-> doc, isLoaded |-> isLoaded, pc |-> pc, idx |-> idx,
     inflight |-> inflight, calls |-> calls, trace |-> trace,
     dispatched |-> dispatched, optPending |-> optPending,
     cleanupPending |-> cleanupPending]

Commit(s) ==
    /\ doc' = s.doc
    /\ isLoaded' = s.isLoaded
    /\ pc' = s.pc
    /\ idx' = s.idx
    /\ inflight' = s.inflight
    /\ calls' = s.calls
    /\ trace' = s.trace
    /\ dispatched' = s.dispatched
    /\ optPending' = s.optPending
    /\ cleanupPending' = s.cleanupPending

Load(p, url) == [pass |-> p, url |-> url]

Milestone(s, p, m) == [s EXCEPT !.trace[p] = Append(@, m)]

(***************************************************************************)
(* loadScript(src, options): resolves at once when the resource is         *)
(* already present, else appends a new element to the head and resolves on *)
(* its load or error event.                                                *)
(***************************************************************************)
loadScript(s, p, url) ==
    LET s1 == [s EXCEPT !.calls[p] = Append(@, url)]
    IN  IF AlreadyPresent(s.doc, url)
        THEN s1
        ELSE [s1 EXCEPT !.doc.head = Append(@, ScriptEl(url, p)),
                        !.inflight = @ \cup {Load(p, url)}]

\* the promise of loadScript(url) of pass p is still pending
Pending(s, p, url) == Load(p, url) \in s.inflight

(***************************************************************************)
(* onOptimizationComplete                                                  *)
(***************************************************************************)
onOptimizationComplete(s, p) ==
    LET s1 == [s EXCEPT !.isLoaded = TRUE,
                        !.dispatched[p] = @ + 1,
                        !.cleanupPending = @ \cup {p}]
    IN  Milestone(s1, p, "Complete")

(***************************************************************************)
(* loadOptionalScriptsOnDemand: registers the idle callback.  The call of  *)
(* requestIdleCallback is unguarded: where the function does not exist it  *)
(* throws a ReferenceError.                                                *)
(***************************************************************************)
RequestIdleCallbackThrows == ~hasRIC

loadOptionalScriptsOnDemand(s, p) == [s EXCEPT !.optPending = @ \cup {p}]

\* the tail of loadNonCriticalScripts, after the last batch (lines 160-163)
FinishNonCritical(s, p) ==
    LET s1 == Milestone(s, p, "BatchesLoaded")
    IN  IF RequestIdleCallbackThrows
        THEN [s1 EXCEPT !.pc[p] = "rejected"]
        ELSE [onOptimizationComplete(loadOptionalScriptsOnDemand(s1, p), p)
                 EXCEPT !.pc[p] = "done"]

(***************************************************************************)
(* loadNonCriticalScripts                                                  *)
(***************************************************************************)
IsReact(url) == Includes(url, "react")

reactScripts == SelectSeq(deferredScripts, IsReact)

otherScripts == SelectSeq(deferredScripts, LAMBDA url : ~IsReact(url))

batchSize == 2

\* otherScripts.slice(i): a batch that runs to the end of the list
BatchToEnd(i) == SubSeq(otherScripts, i, Len(otherScripts))

\* the batch at i with its members in reverse order
BatchReversed(i) ==
    LET hi == Min({i + batchSize - 1, Len(otherScripts)})
    IN  [k \in 1..(hi - i + 1) |-> otherScripts[hi - k + 1]]

\* otherScripts.slice(i, i + batchSize), i counted from 1
Batch(i) == SubSeq(otherScripts, i, IF i + batchSize - 1 <= Len(otherScripts)
                                    THEN i + batchSize - 1 ELSE Len(otherScripts))

RECURSIVE LoadEach(_, _, _)
\* batch.map(scriptUrl => this.loadScript(scriptUrl, ...))
LoadEach(s, p, urls) ==
    IF urls = <<>> THEN s
    ELSE LoadEach(loadScript(s, p, Head(urls)), p, Tail(urls))

BatchPending(s, p, i) == \E k \in DOMAIN Batch(i) : Pending(s, p, Batch(i)[k])

\* after Promise.allSettled of the batch at i: the delay, or the end of the loop
AfterBatch(s, p, i) ==
    IF i + batchSize <= Len(otherScripts)
    THEN [s EXCEPT !.pc[p] = "batch_delay", !.idx[p] = i]
    ELSE FinishNonCritical(s, p)

\* one iteration of the batch loop, up to its first pending await
BatchFrom(s, p, i) ==
    IF i > Len(otherScripts)
    THEN FinishNonCritical(s, p)
    ELSE LET s1 == LoadEach(s, p, Batch(i))
         IN  IF BatchPending(s1, p, i)
             THEN [s1 EXCEPT !.pc[p] = "batch_load", !.idx[p] = i]
             ELSE AfterBatch(s1, p, i)

\* one iteration of the react loop, up to its first pending await
ReactFrom(s, p, j) ==
    IF j > Len(reactScripts)
    THEN BatchFrom(s, p, 1)
    ELSE LET s1 == loadScript(s, p, reactScripts[j])
         IN  IF Pending(s1, p, reactScripts[j])
             THEN [s1 EXCEPT !.pc[p] = "react_load", !.idx[p] = j]
             ELSE [s1 EXCEPT !.pc[p] = "react_delay", !.idx[p] = j]

loadNonCriticalScripts(s, p) == ReactFrom(s, p, 1)

(***************************************************************************)
(* scheduleNonCriticalLoading, loadCriticalScriptsChunked,                 *)
(* startOptimization                                                       *)
(***************************************************************************)
scheduleNonCriticalLoading(s, p) ==
    LET s1 == Milestone(Milestone(s, p, "CriticalLoaded"), p, "IdleScheduled")
    IN  [s1 EXCEPT !.pc[p] = IF hasRIC THEN "sched_idle" ELSE "sched_timer"]

\* after the await of loadScript(mainScripts[i]): the delay, or the end of the
\* loop and the .then of startOptimization
AfterCritical(s, p, i) ==
    IF i < Len(mainScripts)
    THEN [s EXCEPT !.pc[p] = "crit_delay", !.idx[p] = i]
    ELSE scheduleNonCriticalLoading(s, p)

\* loadCriticalScriptsChunked without the await of loadScript
CriticalFromNoAwait(s, p, i) ==
    IF i > Len(mainScripts)
    THEN scheduleNonCriticalLoading(s, p)
    ELSE AfterCritical(loadScript(s, p, mainScripts[i]), p, i)

\* loadCriticalScriptsChunked that starts every load at once and awaits the
\* last one
CriticalFromParallel(s, p, i) ==
    IF i > Len(mainScripts)
    THEN scheduleNonCriticalLoading(s, p)
    ELSE LET n == Len(mainScripts)
             s1 == LoadEach(s, p, SubSeq(mainScripts, i, n))
         IN  IF Pending(s1, p, mainScripts[n])
             THEN [s1 EXCEPT !.pc[p] = "crit_load", !.idx[p] = n]
             ELSE AfterCritical(s1, p, n)

\* one iteration of the loop of loadCriticalScriptsChunked
CriticalFrom(s, p, i) ==
    IF i > Len(mainScripts)
    THEN scheduleNonCriticalLoading(s, p)
    ELSE LET s1 == loadScript(s, p, mainScripts[i])
         IN  IF Pending(s1, p, mainScripts[i])
             THEN [s1 EXCEPT !.pc[p] = "crit_load", !.idx[p] = i]
             ELSE AfterCritical(s1, p, i)

loadCriticalScriptsChunked(s, p) == CriticalFrom(s, p, 1)

startOptimization(s, p) ==
    LET s1 == [s EXCEPT !.doc = handleUnusedScripts(removeExistingScripts(@))]
    IN  loadCriticalScriptsChunked(s1, p)

(***************************************************************************)
(* preloadResources: one preload link per main script, a dns-prefetch and  *)
(* a preconnect, each appended to the head.                                *)
(***************************************************************************)
Link(rel, href) == [rel |-> rel, href |-> href]

\* the href of a connection hint: an origin, with no path
Origin(o) == Url(o, "")

PreloadLinks == [i \in DOMAIN mainScripts |-> Link("preload", mainScripts[i])]

preloadResources(ls) ==
    ls \o PreloadLinks
       \o << Link("dns-prefetch", Origin("//static.parastorage.com")),
             Link("preconnect", Origin("https://static.parastorage.com")) >>


(***************************************************************************)
(* The pages the optimizer is attached to.                                 *)
(***************************************************************************)
PageKinds == {"empty", "satisfied", "foreign"}

PageEls(urls) == [i \in DOMAIN urls |-> ScriptEl(urls[i], 0)]

\* "satisfied": the page itself carries a script for every URL of the lists,
\* the main scripts in its head and the others in its body
PageDoc(kind) ==
    CASE kind = "empty" -> [head |-> <<>>, body |-> <<>>]
      [] kind = "satisfied" ->
            [head |-> PageEls(mainScripts),
             body |-> PageEls(deferredScripts \o optionalScripts)]
      [] kind = "foreign" ->
            [head |-> PageEls(<< Url(DirForeign, FileMain) >>), body |-> <<>>]

\* a page that comes with its scripts also comes with the preconnect hint
PageLinks(kind) ==
    IF kind = "satisfied"
    THEN << Link("preconnect", Origin("https://static.parastorage.com")) >>
    ELSE <<>>

\* the product page while the blog page is looked at: nothing attached
NoTimeout == [kind |-> "none", url |-> 0]

\* the module state of wix-product-optimizer.js when the file has run
NavIdle ==
    /\ locationHref = 0
    /\ lastUrl = 0
    /\ navigationTimeout = NoTimeout
    /\ navObserved = {}
    /\ navRestarted = {}

PageIdle ==
    /\ NavIdle
    /\ hasIO = TRUE
    /\ legacyReady = FALSE
    /\ headLinks = <<>>
    /\ scripts = <<>>
    /\ prod = [isLoaded |-> FALSE, isProductPage |-> FALSE,
               loadedScripts |-> {}, failedScripts |-> {},
               connects |-> 0, starts |-> 0, throws |-> 0, pass |-> 1]
    /\ pStarts = 0
    /\ pRuns = <<>>
    /\ pLazyTimers = 0
    /\ pObservers = 0
    /\ pEvents = <<>>
    /\ restarts = 0
    /\ js = [isLoaded |-> FALSE, isMobile |-> FALSE,
             loadedScripts |-> {}, failedScripts |-> {},
             connects |-> 0, starts |-> 0, throws |-> 0]
    /\ jStarts = 0
    /\ jRuns = <<>>
    /\ jVisTimers = 0
    /\ jObservers = 0
    /\ jIdle = 0
    /\ jEvents = <<>>
    /\ reoptimizes = 0

BlogInit ==
    /\ readyState \in {"loading", "interactive"}
    /\ hasRIC \in BOOLEAN
    /\ blogMarkers \in BOOLEAN
    /\ formMarkers \in BOOLEAN
    /\ pageKind \in PageKinds
    /\ doc = PageDoc(pageKind)
    /\ links = PageLinks(pageKind)
    /\ isLoaded = FALSE
    /\ started = 0
    /\ pc = [p \in Passes |-> "idle"]
    /\ idx = [p \in Passes |-> 0]
    /\ inflight = {}
    /\ calls = [p \in Passes |-> <<>>]
    /\ failed = {}
    /\ trace = [p \in Passes |-> <<>>]
    /\ dispatched = [p \in Passes |-> 0]
    /\ optPending = {}
    /\ cleanupPending = {}

(***************************************************************************)
(* Actions of the blog page.                                               *)
(***************************************************************************)
\* connectedCallback -> initPerformanceOptimization.  The element is attached
\* by the page, re-attached, or created by the DOMContentLoaded listener of
\* lines 336-348 (then readyState is no longer "loading").
connectedCallback ==
    /\ started < MaxPasses
    /\ LET p == started + 1
           s == Milestone(Cur, p, "HintsApplied")
       IN  /\ started' = p
           /\ links' = preloadResources(links)
           /\ IF readyState = "loading"
              THEN Commit([s EXCEPT !.pc[p] = "wait_dcl"])
              ELSE Commit(startOptimization(s, p))
    /\ UNCHANGED << readyState, hasRIC, blogMarkers, formMarkers, pageKind,
                    failed >>
    /\ UNCHANGED pageVars

RECURSIVE StartWaiting(_, _)
\* the DOMContentLoaded listeners of line 51, in the order they were added
StartWaiting(s, p) ==
    IF p > MaxPasses THEN s
    ELSE StartWaiting(IF s.pc[p] = "wait_dcl" THEN startOptimization(s, p) ELSE s,
                      p + 1)

DOMContentLoaded ==
    /\ readyState = "loading"
    /\ readyState' = "interactive"
    /\ Commit(StartWaiting(Cur, 1))
    /\ UNCHANGED << hasRIC, blogMarkers, formMarkers, pageKind, links, started,
                    failed >>
    /\ UNCHANGED pageVars

\* what the pass does when the load of x has settled and its promise resolves
Continue(s, x) ==
    LET p == x.pass
        i == s.idx[p]
    IN  CASE s.pc[p] = "crit_load" /\ x.url = mainScripts[i] ->
                AfterCritical(s, p, i)
          [] s.pc[p] = "react_load" /\ x.url = reactScripts[i] ->
                [s EXCEPT !.pc[p] = "react_delay"]
          [] s.pc[p] = "batch_load" /\ x.url \in Range(Batch(i))
                /\ ~BatchPending(s, p, i) ->
                AfterBatch(s, p, i)
          [] OTHER -> s

Settle(x) == Commit(Continue([Cur EXCEPT !.inflight = @ \ {x}], x))

\* script.onload
ScriptLoad ==
    /\ \E x \in inflight : Settle(x)
    /\ UNCHANGED << readyState, hasRIC, blogMarkers, formMarkers, pageKind,
                    links, started, failed >>
    /\ UNCHANGED pageVars

\* script.onerror that rejects the promise: an await of it throws and the
\* async function of the pass ends there; Promise.allSettled takes it as settled
OnErrorRejects(x) ==
    LET s == [Cur EXCEPT !.inflight = @ \ {x}]
    IN  Commit(IF s.pc[x.pass] \in {"crit_load", "react_load"}
               THEN [s EXCEPT !.pc[x.pass] = "rejected"]
               ELSE Continue(s, x))

\* script.onerror that calls loadScript once more for the URL that failed
OnErrorRetries(x) ==
    Commit(loadScript([Cur EXCEPT !.inflight = @ \ {x}], x.pass, x.url))

\* script.onerror resolves the promise, as script.onload does
OnError(x) == Settle(x)

\* script.onerror
ScriptError ==
    /\ \E x \in inflight :
          /\ OnError(x)
          /\ failed' = IF Cardinality(failed) < MaxFailures
                       THEN failed \cup {x} ELSE failed
    /\ UNCHANGED << readyState, hasRIC, blogMarkers, formMarkers, pageKind,
                    links, started >>
    /\ UNCHANGED pageVars

\* the timer of delay(50) between two critical scripts
CriticalDelayFires ==
    /\ \E p \in Passes :
          /\ pc[p] = "crit_delay"
          /\ Commit(CriticalFrom(Cur, p, idx[p] + 1))
    /\ UNCHANGED << readyState, hasRIC, blogMarkers, formMarkers, pageKind,
                    links, started, failed >>
    /\ UNCHANGED pageVars

\* the idle callback of scheduleNonCriticalLoading (timeout 3000)
IdleCallbackFires ==
    /\ \E p \in Passes :
          /\ pc[p] = "sched_idle"
          /\ Commit(loadNonCriticalScripts(Cur, p))
    /\ UNCHANGED << readyState, hasRIC, blogMarkers, formMarkers, pageKind,
                    links, started, failed >>
    /\ UNCHANGED pageVars

\* the 800 ms timer of scheduleNonCriticalLoading
FallbackTimerFires ==
    /\ \E p \in Passes :
          /\ pc[p] = "sched_timer"
          /\ Commit(loadNonCriticalScripts(Cur, p))
    /\ UNCHANGED << readyState, hasRIC, blogMarkers, formMarkers, pageKind,
                    links, started, failed >>
    /\ UNCHANGED pageVars

\* the timer of delay(100) after a react script
ReactDelayFires ==
    /\ \E p \in Passes :
          /\ pc[p] = "react_delay"
          /\ Commit(ReactFrom(Cur, p, idx[p] + 1))
    /\ UNCHANGED << readyState, hasRIC, blogMarkers, formMarkers, pageKind,
                    links, started, failed >>
    /\ UNCHANGED pageVars

\* the timer of delay(200) between two batches
BatchDelayFires ==
    /\ \E p \in Passes :
          /\ pc[p] = "batch_delay"
          /\ Commit(BatchFrom(Cur, p, idx[p] + batchSize))
    /\ UNCHANGED << readyState, hasRIC, blogMarkers, formMarkers, pageKind,
                    links, started, failed >>
    /\ UNCHANGED pageVars

\* the idle callback with the form-app branch outside its marker test
OnDemandUrlsUnguarded(blog, form) ==
    (IF blog
     THEN SelectSeq(optionalScripts, LAMBDA u : Includes(u, "BlogViewerWidget"))
     ELSE <<>>)
    \o SelectSeq(optionalScripts, LAMBDA u : Includes(u, "form-app"))

\* the scripts the idle callback of loadOptionalScriptsOnDemand loads
OnDemandUrls(blog, form) ==
    (IF blog
     THEN SelectSeq(optionalScripts, LAMBDA u : Includes(u, "BlogViewerWidget"))
     ELSE <<>>)
    \o
    (IF form
     THEN SelectSeq(optionalScripts, LAMBDA u : Includes(u, "form-app"))
     ELSE <<>>)

\* the idle callback of loadOptionalScriptsOnDemand (timeout 5000)
OnDemandCallback ==
    /\ \E p \in optPending :
          Commit(LoadEach(Milestone([Cur EXCEPT !.optPending = @ \ {p}],
                                    p, "OptionalEvaluated"),
                          p, OnDemandUrls(blogMarkers, formMarkers)))
    /\ UNCHANGED << readyState, hasRIC, blogMarkers, formMarkers, pageKind,
                    links, started, failed >>
    /\ UNCHANGED pageVars

\* the 3000 ms timer of onOptimizationComplete
CleanupTimerFires ==
    /\ \E p \in cleanupPending :
          Commit([Cur EXCEPT !.cleanupPending = @ \ {p},
                             !.doc = removeMarkedScripts(@)])
    /\ UNCHANGED << readyState, hasRIC, blogMarkers, formMarkers, pageKind,
                    links, started, failed >>
    /\ UNCHANGED pageVars

BlogNext ==
    \/ connectedCallback
    \/ DOMContentLoaded
    \/ ScriptLoad
    \/ ScriptError
    \/ CriticalDelayFires
    \/ IdleCallbackFires
    \/ FallbackTimerFires
    \/ ReactDelayFires
    \/ BatchDelayFires
    \/ OnDemandCallback
    \/ CleanupTimerFires

Init == BlogInit /\ PageIdle

Spec == Init /\ [][BlogNext]_vars

(***************************************************************************)
(* Properties of WixBlogListOptimizer.                                     *)
(***************************************************************************)
\* the pipeline of pass p has run to its end: its async functions have
\* returned or thrown, and no continuation of it is pending
PipelineEnded(p) == pc[p] \in {"done", "rejected"}

CalledBefore(p, u, k) == \E j \in 1..(k - 1) : calls[p][j] = u

\* C1: in every pass, when loadScript is called for a deferred URL, loadScript
\* has been called before for every main URL, and each of these calls has
\* resolved, whether by load or by error.
C1_CriticalBeforeDeferred ==
    \A p \in Passes : \A k \in DOMAIN calls[p] :
        calls[p][k] \in Range(deferredScripts) =>
            \A m \in Range(mainScripts) :
                CalledBefore(p, m, k) /\ Load(p, m) \notin inflight

\* C1 witness: a pass has begun its deferred loads after a main script failed
C1_Witness ==
    \E p \in Passes :
        /\ \E k \in DOMAIN calls[p] : calls[p][k] \in Range(deferredScripts)
        /\ \E m \in Range(mainScripts) : Load(p, m) \in failed

\* C2: every pass dispatches the completion event exactly once: never twice,
\* and once by the time its pipeline has run to its end.
C2_ExactlyOnce ==
    \A p \in Passes :
        /\ dispatched[p] <= 1
        /\ PipelineEnded(p) => dispatched[p] = 1

\* C3: when one member of the batch of two fails, the other member is loaded
\* too, and once the pipeline has run to its end every later batch has been
\* issued and onOptimizationComplete has been reached.
C3_BatchFailureIsolated ==
    \A p \in Passes : \A x \in failed :
        (x.pass = p /\ x.url \in Range(Batch(1))) =>
            /\ Range(Batch(1)) \subseteq Range(calls[p])
            /\ PipelineEnded(p) =>
                  /\ Range(otherScripts) \subseteq Range(calls[p])
                  /\ \E k \in DOMAIN trace[p] : trace[p][k] = "Complete"

\* C4: on a page that came with a script for every URL, the document never
\* holds two script elements with the same URL.
C4_NoDuplicateScripts ==
    pageKind = "satisfied" =>
        \A i, j \in DOMAIN AllScriptEls(doc) :
            AllScriptEls(doc)[i].src = AllScriptEls(doc)[j].src => i = j

UrlBlogViewer == Url(DirBlogOoi, FileBlogViewer)

UrlFormApp == Url(DirFormApp, FileFormApp)

\* C5: a pass passes an optional URL to loadScript only if the markers of that
\* URL are in the page: the blog viewer only with blog markers, form-app only
\* with form markers, and no other optional URL at all.
C5_OptionalOnlyWithMarkers ==
    \A p \in Passes : \A u \in Range(calls[p]) :
        u \in Range(optionalScripts) =>
            \/ u = UrlBlogViewer /\ blogMarkers
            \/ u = UrlFormApp /\ formMarkers

\* C5 witness: the on-demand callback has run on a page with blog markers and
\* no form markers, and has loaded the blog viewer alone
C5_Witness ==
    \E p \in Passes :
        /\ blogMarkers /\ ~formMarkers
        /\ \E k \in DOMAIN trace[p] : trace[p][k] = "OptionalEvaluated"
        /\ Range(calls[p]) \cap Range(optionalScripts) = {UrlBlogViewer}

\* C6: without requestIdleCallback, a pass whose pipeline has run to its end
\* has executed onOptimizationComplete: isLoaded is set and the event is out.
C6_FallbackReachesComplete ==
    ~hasRIC =>
        \A p \in Passes :
            PipelineEnded(p) => isLoaded /\ dispatched[p] >= 1

\* C8: the head holds at most one hint link per (rel, href).
C8_BlogHintsUnique ==
    \A i, j \in DOMAIN links : links[i] = links[j] => i = j

PhaseOrder ==
    << "HintsApplied", "CriticalLoaded", "IdleScheduled", "BatchesLoaded",
       "OptionalEvaluated", "Complete" >>

\* C9: the milestones of a pass are reached in the order of PhaseOrder, none
\* skipped: what a pass has reached so far is a prefix of PhaseOrder.
C9_PhasesInOrder ==
    \A p \in Passes :
        /\ Len(trace[p]) <= Len(PhaseOrder)
        /\ trace[p] = SubSeq(PhaseOrder, 1, Len(trace[p]))


(***************************************************************************)
(* src/wix-product-optimizer.js: the URL lists of the two constructors.    *)
(***************************************************************************)
UrlMain == Url(DirThunderbolt, FileMain)

UrlProGallery == Url(DirEditorElements, FileProGallery)

UrlSentry == Url(DirSentry, FileSentry)

\* WixProductPageOptimizer
preloadableScripts ==
    << UrlMain, Url(DirThunderbolt, FileCommons), Url(DirReact, FileReact) >>

deferableScripts ==
    << UrlProGallery, Url(DirThunderbolt, FileAnimations),
       Url(DirFormApp, FileFormApp), UrlSentry >>

\* WixJSOptimizer
criticalScripts ==
    << UrlMain, Url(DirThunderbolt, FileCommons), Url(DirReact, FileReact),
       Url(DirRequire, FileRequire) >>

JS_deferableScripts ==
    << UrlProGallery, Url(DirThunderbolt, FileAnimations),
       Url(DirThunderbolt, FileGroup6), Url(DirThunderbolt, FileConsent),
       Url(DirEditorElements, FileRichContent), Url(DirEditorElements, FileMenu),
       Url(DirFormApp, FileFormApp), Url(DirCartIcon, FileCartIcon) >>

JS_optionalScripts == << UrlSentry >>

(***************************************************************************)
(* The hint phase: addResourcePreloads, hasExistingPreload,                *)
(* addConnectionOptimizations (the same code in both classes, with         *)
(* different lists).                                                       *)
(***************************************************************************)
HintLink(rel, href) == [rel |-> rel, href |-> href, opt |-> TRUE]

\* document.querySelector(`link[rel="${rel}"][href="${href}"]`) finds a link
HasLink(ls, rel, href) ==
    \E i \in DOMAIN ls : ls[i].rel = rel /\ ls[i].href = href

\* the lookup that never finds the hint
hasExistingPreloadNever(ls, src) == FALSE

hasExistingPreload(ls, src) == HasLink(ls, "preload", src)

RECURSIVE AddPreloads(_, _)
\* the forEach of addResourcePreloads
AddPreloads(ls, urls) ==
    IF urls = <<>> THEN ls
    ELSE AddPreloads(IF hasExistingPreload(ls, Head(urls))
                     THEN ls
                     ELSE Append(ls, HintLink("preload", Head(urls))),
                     Tail(urls))

RECURSIVE addConnectionOptimizations(_, _)
\* the forEach of addConnectionOptimizations over its list of [rel, href]
addConnectionOptimizations(ls, opts) ==
    IF opts = <<>> THEN ls
    ELSE addConnectionOptimizations(
             IF HasLink(ls, Head(opts).rel, Head(opts).href)
             THEN ls
             ELSE Append(ls, HintLink(Head(opts).rel, Head(opts).href)),
             Tail(opts))

Product_optimizations ==
    << [rel |-> "dns-prefetch", href |-> Origin("//static.parastorage.com")],
       [rel |-> "preconnect", href |-> Origin("https://static.parastorage.com")],
       [rel |-> "dns-prefetch", href |-> Origin("//browser.sentry-cdn.com")] >>

JS_optimizations ==
    Product_optimizations
    \o << [rel |-> "dns-prefetch", href |-> Origin("//www.googletagmanager.com")] >>

Product_addResourcePreloads(ls) ==
    addConnectionOptimizations(AddPreloads(ls, preloadableScripts),
                               Product_optimizations)

\* isMobile ? this.criticalScripts.slice(0, 2) : this.criticalScripts
scriptsToPreload(isMobile) ==
    IF isMobile THEN SubSeq(criticalScripts, 1, 2) ELSE criticalScripts

JS_addResourcePreloads(ls, isMobile) ==
    addConnectionOptimizations(AddPreloads(ls, scriptsToPreload(isMobile)),
                               JS_optimizations)

\* cleanup() of either class: every [data-wix-optimized="true"] element goes;
\* no script carries that value, so only hint links are removed
cleanup(ls) == SelectSeq(ls, LAMBDA l : ~l.opt)

(***************************************************************************)
(* enhanceExistingScripts, deferHeavyComponents, loadLazyScripts           *)
(***************************************************************************)
\* src.includes(url.split('/').slice(-2).join('/')): the last directory
\* segment and the file name occur in src.  Where this holds the file name
\* occurs in src too, so the disjunction of JS_Matches is decided by Includes.
IncludesLastTwo(src, url) == src.file = url.file /\ src.dir = url.dir

Product_EnhanceEl(e) ==
    IF e.tag # "none" THEN e
    ELSE IF MatchesAny(e.src, preloadableScripts)
         THEN [e EXCEPT !.tag = "enhanced"]
    ELSE IF MatchesAny(e.src, deferableScripts) /\ ~e.asyncOrDefer
         THEN [e EXCEPT !.tag = "deferred", !.asyncOrDefer = TRUE]
    ELSE e

Product_enhanceExistingScripts(ss) ==
    [i \in DOMAIN ss |-> Product_EnhanceEl(ss[i])]

JS_Matches(src, list) ==
    \E i \in DOMAIN list :
        Includes(src, Pop(list[i])) \/ IncludesLastTwo(src, list[i])

isCriticalScript(src) == JS_Matches(src, criticalScripts)

isDeferableScript(src) == JS_Matches(src, JS_deferableScripts)

isOptionalScript(src) == JS_Matches(src, JS_optionalScripts)

\* the forEach body of WixJSOptimizer.enhanceExistingScripts without the test
\* of hasAttribute('data-wix-optimized')
JS_EnhanceElUnguarded(e) ==
    IF isCriticalScript(e.src)
    THEN [e EXCEPT !.tag = "high-priority"]
    ELSE IF isDeferableScript(e.src)
         THEN IF ~e.asyncOrDefer
              THEN [e EXCEPT !.tag = "deferred", !.asyncOrDefer = TRUE]
              ELSE e
    ELSE IF isOptionalScript(e.src)
         THEN [e EXCEPT !.tag = "low-priority"]
    ELSE e

JS_EnhanceEl(e) ==
    IF e.tag # "none" THEN e
    ELSE IF isCriticalScript(e.src)
         THEN [e EXCEPT !.tag = "high-priority"]
    ELSE IF isDeferableScript(e.src)
         THEN IF ~e.asyncOrDefer
              THEN [e EXCEPT !.tag = "deferred", !.asyncOrDefer = TRUE]
              ELSE e
    ELSE IF isOptionalScript(e.src)
         THEN [e EXCEPT !.tag = "low-priority"]
    ELSE e

JS_enhanceExistingScripts(ss) == [i \in DOMAIN ss |-> JS_EnhanceEl(ss[i])]

\* document.querySelector('script[src*="ProGallery"]'): the first such script
deferHeavyComponents(ss) ==
    LET hits == { i \in DOMAIN ss : Includes(ss[i].src, "ProGallery") }
    IN  IF hits # {} /\ ss[Min(hits)].tag = "none"
        THEN [i \in DOMAIN ss |->
                 IF i = Min(hits)
                 THEN [ss[i] EXCEPT !.lazy = TRUE, !.tag = "lazy"]
                 ELSE ss[i]]
        ELSE ss

RECURSIVE LoadLazyFrom(_, _)
\* the forEach of loadLazyScripts, from script i on; o is [scripts, loaded]
LoadLazyFrom(o, i) ==
    IF i > Len(o.scripts) THEN o
    ELSE LoadLazyFrom(
             IF o.scripts[i].lazy /\ o.scripts[i].src \notin o.loaded
             THEN [scripts |-> [k \in DOMAIN o.scripts |->
                                   IF k = i
                                   THEN [o.scripts[k] EXCEPT !.lazy = FALSE]
                                   ELSE o.scripts[k]],
                   loaded |-> o.loaded \cup {o.scripts[i].src}]
             ELSE o,
             i + 1)

\* the scripts whose src the forEach of loadVisibilityTriggeredScripts
\* (tag "deferred") or of loadOptionalScripts (tag "low-priority") adds to
\* loadedScripts
SrcsTagged(ss, tag) == { ss[i].src : i \in { k \in DOMAIN ss : ss[k].tag = tag } }


(***************************************************************************)
(* The part of the state of the product page that the two optimizers read  *)
(* and write.                                                              *)
(***************************************************************************)
PCur ==
    [headLinks |-> headLinks, scripts |-> scripts, prod |-> prod,
     pStarts |-> pStarts, pRuns |-> pRuns, pLazyTimers |-> pLazyTimers,
     pObservers |-> pObservers, pEvents |-> pEvents, js |-> js,
     jStarts |-> jStarts, jRuns |-> jRuns, jVisTimers |-> jVisTimers,
     jObservers |-> jObservers, jIdle |-> jIdle, jEvents |-> jEvents]

PCommit(g) ==
    /\ headLinks' = g.headLinks
    /\ scripts' = g.scripts
    /\ prod' = g.prod
    /\ pStarts' = g.pStarts
    /\ pRuns' = g.pRuns
    /\ pLazyTimers' = g.pLazyTimers
    /\ pObservers' = g.pObservers
    /\ pEvents' = g.pEvents
    /\ js' = g.js
    /\ jStarts' = g.jStarts
    /\ jRuns' = g.jRuns
    /\ jVisTimers' = g.jVisTimers
    /\ jObservers' = g.jObservers
    /\ jIdle' = g.jIdle
    /\ jEvents' = g.jEvents

\* script.readyState === 'complete' || script.complete: script elements have
\* no `complete', and only legacy engines give them a readyState
ReportsComplete(e) == legacyReady /\ e.state = "loaded"

\* (count / total) * 100 >= pct; with no scripts the quotient is NaN
Reaches(count, total, pct) == total > 0 /\ count * 100 >= pct * total

\* cleanup() with the selector [data-wix-optimized]
RemoveTagged(g) ==
    [g EXCEPT !.headLinks = cleanup(@),
              !.scripts = SelectSeq(@, LAMBDA e : e.tag = "none")]

\* cleanup() of either class on the document: querySelectorAll of
\* [data-wix-optimized="true"], and remove() of each element found
RemoveOptimized(g) ==
    [g EXCEPT !.headLinks = cleanup(@),
              !.scripts = SelectSeq(@, LAMBDA e : e.tag # "true")]

(***************************************************************************)
(* WixProductPageOptimizer                                                 *)
(***************************************************************************)
\* onOptimizationComplete() without its guard
Product_onOptimizationCompleteUnguarded(g, via) ==
    [g EXCEPT !.prod.isLoaded = TRUE,
              !.pEvents = Append(@,
                  [pass |-> g.prod.pass, via |-> via,
                   detail |-> [isProductPage |-> g.prod.isProductPage,
                               failedScripts |-> g.prod.failedScripts,
                               method |-> "safe-enhancement"]])]

Product_onOptimizationComplete(g, via) ==
    IF g.prod.isLoaded THEN g
    ELSE [g EXCEPT !.prod.isLoaded = TRUE,
                   !.pEvents = Append(@,
                       [pass |-> g.prod.pass, via |-> via,
                        detail |-> [isProductPage |-> g.prod.isProductPage,
                                    failedScripts |-> g.prod.failedScripts,
                                    method |-> "safe-enhancement"]])]

\* checkOptimizationComplete without the test of loadProgress
checkOptimizationCompleteAnyProgress(g, r) ==
    IF ~g.prod.isLoaded
    THEN [g EXCEPT !.pRuns[r].timers = @ + 1]
    ELSE g

\* checkOptimizationComplete(totalScripts, loadedCount) for the run r
checkOptimizationComplete(g, r) ==
    IF Reaches(g.pRuns[r].count, g.pRuns[r].total, 80) /\ ~g.prod.isLoaded
    THEN [g EXCEPT !.pRuns[r].timers = @ + 1]
    ELSE g

Product_monitorPerformance(g) ==
    LET done == { i \in DOMAIN g.scripts : ReportsComplete(g.scripts[i]) }
        run == [total |-> Len(g.scripts), count |-> Cardinality(done),
                waiting |-> DOMAIN g.scripts \ done, timers |-> 0]
        g1 == [g EXCEPT !.pRuns = Append(@, run)]
    IN  checkOptimizationComplete(g1, Len(g1.pRuns))

\* setupIntersectionObserver() without the timer of its else branch
Product_setupIntersectionObserverNoFallback(g) ==
    IF hasIO
    THEN [g EXCEPT !.pObservers = @ + 1]
    ELSE g

Product_setupIntersectionObserver(g) ==
    IF hasIO
    THEN [g EXCEPT !.pObservers = @ + 1]
    ELSE [g EXCEPT !.pLazyTimers = @ + 1]

setupLazyLoading(g) ==
    Product_setupIntersectionObserver(
        IF ~g.prod.isProductPage
        THEN [g EXCEPT !.scripts = deferHeavyComponents(@)]
        ELSE g)

loadLazyScripts(g) ==
    LET o == LoadLazyFrom([scripts |-> g.scripts,
                           loaded |-> g.prod.loadedScripts], 1)
    IN  [g EXCEPT !.scripts = o.scripts, !.prod.loadedScripts = o.loaded]

\* the catch block of startSafeOptimization
Product_Catch(g) ==
    Product_onOptimizationComplete([g EXCEPT !.prod.throws = @ + 1], "catch")

\* startSafeOptimization; t is the setup step that throws (0: none does)
startSafeOptimization(g, t) ==
    LET g0 == [g EXCEPT !.prod.starts = @ + 1]
        g1 == [g0 EXCEPT !.headLinks = Product_addResourcePreloads(@)]
        g2 == [g1 EXCEPT !.scripts = Product_enhanceExistingScripts(@)]
        g3 == setupLazyLoading(g2)
    IN  CASE t = 1 -> Product_Catch(g0)
          [] t = 2 -> Product_Catch(g1)
          [] t = 3 -> Product_Catch(g2)
          [] t = 4 -> Product_Catch(g3)
          [] OTHER -> Product_monitorPerformance(g3)

\* restartOptimization() without its guard
Product_restartUnguarded(g, pp) ==
    [g EXCEPT !.prod.isLoaded = FALSE,
              !.prod.isProductPage = pp,
              !.prod.pass = @ + 1,
              !.pStarts = @ + 1]

\* restartOptimization(); pp is what detectProductPage finds at the new URL
Product_restartOptimization(g, pp) ==
    IF g.prod.isLoaded
    THEN [g EXCEPT !.prod.isLoaded = FALSE,
                   !.prod.isProductPage = pp,
                   !.prod.pass = @ + 1,
                   !.pStarts = @ + 1]
    ELSE g

\* the load or error listeners that the run r of the product optimizer has
\* on script i
Product_ListenerForgetsFailure(g, r, i, ok) ==
    IF i \notin g.pRuns[r].waiting THEN g
    ELSE LET g1 == [g EXCEPT !.pRuns[r].waiting = @ \ {i},
                             !.pRuns[r].count = @ + 1]
         IN  checkOptimizationComplete(g1, r)

Product_Listener(g, r, i, ok) ==
    IF i \notin g.pRuns[r].waiting THEN g
    ELSE LET g1 == [g EXCEPT !.pRuns[r].waiting = @ \ {i},
                             !.pRuns[r].count = @ + 1,
                             !.prod.failedScripts =
                                 IF ok THEN @ ELSE @ \cup {g.scripts[i].src}]
         IN  checkOptimizationComplete(g1, r)

(***************************************************************************)
(* WixJSOptimizer                                                          *)
(***************************************************************************)
\* WixJSOptimizer.onOptimizationComplete() without its guard
JS_onOptimizationCompleteUnguarded(g, via) ==
    [g EXCEPT !.js.isLoaded = TRUE,
              !.jEvents = Append(@,
                  [via |-> via,
                   detail |-> [totalScripts |-> Len(g.scripts),
                               optimizedScripts |->
                                   Cardinality({ i \in DOMAIN g.scripts :
                                                   g.scripts[i].tag # "none" }),
                               failedScripts |-> g.js.failedScripts,
                               isMobile |-> g.js.isMobile]])]

JS_onOptimizationComplete(g, via) ==
    IF g.js.isLoaded THEN g
    ELSE [g EXCEPT !.js.isLoaded = TRUE,
                   !.jEvents = Append(@,
                       [via |-> via,
                        detail |-> [totalScripts |-> Len(g.scripts),
                                    optimizedScripts |->
                                        Cardinality({ i \in DOMAIN g.scripts :
                                                        g.scripts[i].tag # "none" }),
                                    failedScripts |-> g.js.failedScripts,
                                    isMobile |-> g.js.isMobile]])]

\* checkOptimizationProgress(totalScripts, loadedCount, errorCount) for run r
checkOptimizationProgress(g, r) ==
    IF Reaches(g.jRuns[r].loaded + g.jRuns[r].errors, g.jRuns[r].total, 90)
       /\ ~g.js.isLoaded
    THEN [g EXCEPT !.jRuns[r].timers = @ + 1]
    ELSE g

JS_monitorPerformance(g) ==
    LET done == { i \in DOMAIN g.scripts : ReportsComplete(g.scripts[i]) }
        run == [total |-> Len(g.scripts), loaded |-> Cardinality(done),
                errors |-> 0, waiting |-> DOMAIN g.scripts \ done, timers |-> 0]
        g1 == [g EXCEPT !.jRuns = Append(@, run)]
    IN  checkOptimizationProgress(g1, Len(g1.jRuns))

JS_setupIntersectionObserver(g) ==
    IF hasIO
    THEN [g EXCEPT !.jObservers = @ + 1]
    ELSE [g EXCEPT !.jVisTimers = @ + 1]

\* requestIdleCallback where it exists, else setTimeout
setupIdleLoading(g) == [g EXCEPT !.jIdle = @ + 1]

setupIntelligentLoading(g) == setupIdleLoading(JS_setupIntersectionObserver(g))

loadVisibilityTriggeredScripts(g) ==
    [g EXCEPT !.js.loadedScripts = @ \cup SrcsTagged(g.scripts, "deferred")]

loadOptionalScripts(g) ==
    [g EXCEPT !.js.loadedScripts = @ \cup SrcsTagged(g.scripts, "low-priority")]

JS_Catch(g) == JS_onOptimizationComplete([g EXCEPT !.js.throws = @ + 1], "catch")

\* startOptimization; t is the setup step that throws (0: none does)
JS_startOptimization(g, t) ==
    LET g0 == [g EXCEPT !.js.starts = @ + 1]
        g1 == [g0 EXCEPT !.headLinks = JS_addResourcePreloads(@, g.js.isMobile)]
        g2 == [g1 EXCEPT !.scripts = JS_enhanceExistingScripts(@)]
        g3 == setupIntelligentLoading(g2)
    IN  CASE t = 1 -> JS_Catch(g0)
          [] t = 2 -> JS_Catch(g1)
          [] t = 3 -> JS_Catch(g2)
          [] t = 4 -> JS_Catch(g3)
          [] OTHER -> JS_monitorPerformance(g3)

JS_reoptimize(g) ==
    IF ~g.js.isLoaded THEN g
    ELSE setupIntelligentLoading(
             [g EXCEPT !.scripts = JS_enhanceExistingScripts(@)])

JS_Listener(g, r, i, ok) ==
    IF i \notin g.jRuns[r].waiting THEN g
    ELSE LET g1 == [g EXCEPT !.jRuns[r].waiting = @ \ {i},
                             !.jRuns[r].loaded = IF ok THEN @ + 1 ELSE @,
                             !.jRuns[r].errors = IF ok THEN @ ELSE @ + 1,
                             !.js.failedScripts =
                                 IF ok THEN @ ELSE @ \cup {g.scripts[i].src}]
         IN  checkOptimizationProgress(g1, r)

RECURSIVE ProductListeners(_, _, _, _)
ProductListeners(g, r, i, ok) ==
    IF r > Len(g.pRuns) THEN g
    ELSE ProductListeners(Product_Listener(g, r, i, ok), r + 1, i, ok)

RECURSIVE JSListeners(_, _, _, _)
JSListeners(g, r, i, ok) ==
    IF r > Len(g.jRuns) THEN g
    ELSE JSListeners(JS_Listener(g, r, i, ok), r + 1, i, ok)

\* the load (ok) or error event of script i: every listener on it runs
ScriptEvent(g, i, ok) ==
    LET g1 == [g EXCEPT !.scripts =
                   [k \in DOMAIN @ |->
                       IF k = i
                       THEN [@[k] EXCEPT !.state = IF ok THEN "loaded" ELSE "failed"]
                       ELSE @[k]]]
    IN  JSListeners(ProductListeners(g1, 1, i, ok), 1, i, ok)


(***************************************************************************)
(* The product page: its scripts and hints, and the blog page left alone.  *)
(***************************************************************************)
PageScript(src, asyncOrDefer) ==
    [src |-> src, tag |-> "none", lazy |-> FALSE,
     asyncOrDefer |-> asyncOrDefer, state |-> "loading"]

\* the page comes with the main bundle, the gallery bundle and sentry
PageScripts(galleryAsync) ==
    << PageScript(UrlMain, FALSE), PageScript(UrlProGallery, galleryAsync),
       PageScript(UrlSentry, FALSE) >>

\* the page's own preload of the main bundle
PagePreload == [rel |-> "preload", href |-> UrlMain, opt |-> FALSE]

BlogIdle ==
    /\ readyState = "interactive"
    /\ hasRIC = TRUE
    /\ blogMarkers = FALSE
    /\ formMarkers = FALSE
    /\ pageKind = "empty"
    /\ doc = PageDoc("empty")
    /\ links = <<>>
    /\ isLoaded = FALSE
    /\ started = 0
    /\ pc = [p \in Passes |-> "idle"]
    /\ idx = [p \in Passes |-> 0]
    /\ inflight = {}
    /\ calls = [p \in Passes |-> <<>>]
    /\ failed = {}
    /\ trace = [p \in Passes |-> <<>>]
    /\ dispatched = [p \in Passes |-> 0]
    /\ optPending = {}
    /\ cleanupPending = {}

\* both elements as constructed, none connected yet; pp is what
\* detectProductPage finds, m what detectMobile finds
PageStart(pp, m) ==
    /\ NavIdle
    /\ prod = [isLoaded |-> FALSE, isProductPage |-> pp,
               loadedScripts |-> {}, failedScripts |-> {},
               connects |-> 0, starts |-> 0, throws |-> 0, pass |-> 1]
    /\ pStarts = 0
    /\ pRuns = <<>>
    /\ pLazyTimers = 0
    /\ pObservers = 0
    /\ pEvents = <<>>
    /\ restarts = 0
    /\ js = [isLoaded |-> FALSE, isMobile |-> m,
             loadedScripts |-> {}, failedScripts |-> {},
             connects |-> 0, starts |-> 0, throws |-> 0]
    /\ jStarts = 0
    /\ jRuns = <<>>
    /\ jVisTimers = 0
    /\ jObservers = 0
    /\ jIdle = 0
    /\ jEvents = <<>>
    /\ reoptimizes = 0

\* a page that only the product optimizer is put on
ProductInit ==
    /\ BlogIdle
    /\ hasIO \in BOOLEAN
    /\ legacyReady \in BOOLEAN
    /\ headLinks \in { <<>>, << PagePreload >> }
    /\ \E galleryAsync \in BOOLEAN : scripts = PageScripts(galleryAsync)
    /\ \E pp \in BOOLEAN : PageStart(pp, FALSE)

\* a page that only the JS optimizer is put on
JSInit ==
    /\ BlogIdle
    /\ hasIO \in BOOLEAN
    /\ legacyReady \in BOOLEAN
    /\ headLinks \in { <<>>, << PagePreload >> }
    /\ \E galleryAsync \in BOOLEAN : scripts = PageScripts(galleryAsync)
    /\ \E m \in BOOLEAN : PageStart(TRUE, m)

\* a page that carries both optimizers; its only script is the main bundle
PageInit ==
    /\ BlogIdle
    /\ hasIO = TRUE
    /\ legacyReady = FALSE
    /\ headLinks \in { <<>>, << PagePreload >> }
    /\ scripts = << PageScript(UrlMain, FALSE) >>
    /\ \E pp \in BOOLEAN, m \in BOOLEAN : PageStart(pp, m)

(***************************************************************************)
(* Actions of the product page.                                            *)
(***************************************************************************)
SetupSteps == 0..4

\* connectedCallback -> initOptimization: the DOMContentLoaded listener or the
\* 100 ms timer
Product_connectedCallback ==
    /\ prod.connects < MaxConnects
    /\ PCommit([PCur EXCEPT !.prod.connects = @ + 1, !.pStarts = @ + 1])
    /\ UNCHANGED << hasIO, legacyReady, restarts, reoptimizes, navVars, blogVars >>

Product_StartFires ==
    /\ pStarts > 0
    /\ \E t \in SetupSteps :
          PCommit(startSafeOptimization([PCur EXCEPT !.pStarts = @ - 1], t))
    /\ UNCHANGED << hasIO, legacyReady, restarts, reoptimizes, navVars, blogVars >>

\* the load event of a script of the page
ScriptLoads ==
    /\ \E i \in DOMAIN scripts :
          /\ scripts[i].state = "loading"
          /\ PCommit(ScriptEvent(PCur, i, TRUE))
    /\ UNCHANGED << hasIO, legacyReady, restarts, reoptimizes, navVars, blogVars >>

\* the error event of a script of the page
ScriptFails ==
    /\ \E i \in DOMAIN scripts :
          /\ scripts[i].state = "loading"
          /\ PCommit(ScriptEvent(PCur, i, FALSE))
    /\ UNCHANGED << hasIO, legacyReady, restarts, reoptimizes, navVars, blogVars >>

\* a 1000 ms timer of checkOptimizationComplete
Product_CompleteTimerFires ==
    /\ \E r \in DOMAIN pRuns :
          /\ pRuns[r].timers > 0
          /\ PCommit(Product_onOptimizationComplete(
                         [PCur EXCEPT !.pRuns[r].timers = @ - 1], "timer"))
    /\ UNCHANGED << hasIO, legacyReady, restarts, reoptimizes, navVars, blogVars >>

\* the observer callback with an intersecting entry
Product_Intersects ==
    /\ pObservers > 0
    /\ PCommit(loadLazyScripts([PCur EXCEPT !.pObservers = @ - 1,
                                            !.pLazyTimers = @ + 1]))
    /\ UNCHANGED << hasIO, legacyReady, restarts, reoptimizes, navVars, blogVars >>

\* the 5000 ms timer beside a connected observer, or the timer that is left
\* alone: the 2000 ms one, or the 5000 ms one after the observer has fired
Product_LazyTimerFires ==
    /\ \/ /\ pObservers > 0
          /\ PCommit(loadLazyScripts([PCur EXCEPT !.pObservers = @ - 1]))
       \/ /\ pLazyTimers > 0
          /\ PCommit(loadLazyScripts([PCur EXCEPT !.pLazyTimers = @ - 1]))
    /\ UNCHANGED << hasIO, legacyReady, restarts, reoptimizes, navVars, blogVars >>

\* a call of restartOptimization() from outside
restartOptimization ==
    /\ restarts < MaxRestarts
    /\ \E pp \in BOOLEAN : PCommit(Product_restartOptimization(PCur, pp))
    /\ restarts' = IF prod.isLoaded THEN restarts + 1 ELSE restarts
    /\ UNCHANGED << hasIO, legacyReady, reoptimizes, navVars, blogVars >>

Product_cleanup ==
    /\ PCommit(RemoveOptimized(PCur))
    /\ UNCHANGED << hasIO, legacyReady, restarts, reoptimizes, navVars, blogVars >>

JS_connectedCallback ==
    /\ js.connects < MaxConnects
    /\ PCommit([PCur EXCEPT !.js.connects = @ + 1, !.jStarts = @ + 1])
    /\ UNCHANGED << hasIO, legacyReady, restarts, reoptimizes, navVars, blogVars >>

JS_StartFires ==
    /\ jStarts > 0
    /\ \E t \in SetupSteps :
          PCommit(JS_startOptimization([PCur EXCEPT !.jStarts = @ - 1], t))
    /\ UNCHANGED << hasIO, legacyReady, restarts, reoptimizes, navVars, blogVars >>

\* a 300 or 500 ms timer of checkOptimizationProgress
JS_CompleteTimerFires ==
    /\ \E r \in DOMAIN jRuns :
          /\ jRuns[r].timers > 0
          /\ PCommit(JS_onOptimizationComplete(
                         [PCur EXCEPT !.jRuns[r].timers = @ - 1], "timer"))
    /\ UNCHANGED << hasIO, legacyReady, restarts, reoptimizes, navVars, blogVars >>

JS_Intersects ==
    /\ jObservers > 0
    /\ PCommit(loadVisibilityTriggeredScripts(
                   [PCur EXCEPT !.jObservers = @ - 1, !.jVisTimers = @ + 1]))
    /\ UNCHANGED << hasIO, legacyReady, restarts, reoptimizes, navVars, blogVars >>

JS_VisTimerFires ==
    /\ \/ /\ jObservers > 0
          /\ PCommit(loadVisibilityTriggeredScripts(
                         [PCur EXCEPT !.jObservers = @ - 1]))
       \/ /\ jVisTimers > 0
          /\ PCommit(loadVisibilityTriggeredScripts(
                         [PCur EXCEPT !.jVisTimers = @ - 1]))
    /\ UNCHANGED << hasIO, legacyReady, restarts, reoptimizes, navVars, blogVars >>

\* the idle callback, or the timer, of setupIdleLoading
JS_IdleFires ==
    /\ jIdle > 0
    /\ PCommit(loadOptionalScripts([PCur EXCEPT !.jIdle = @ - 1]))
    /\ UNCHANGED << hasIO, legacyReady, restarts, reoptimizes, navVars, blogVars >>

\* a call of reoptimize() from outside
reoptimize ==
    /\ reoptimizes < MaxReoptimizes
    /\ PCommit(JS_reoptimize(PCur))
    /\ reoptimizes' = IF js.isLoaded THEN reoptimizes + 1 ELSE reoptimizes
    /\ UNCHANGED << hasIO, legacyReady, restarts, navVars, blogVars >>

JS_cleanup ==
    /\ PCommit(RemoveOptimized(PCur))
    /\ UNCHANGED << hasIO, legacyReady, restarts, reoptimizes, navVars, blogVars >>

PageNext ==
    \/ Product_connectedCallback
    \/ Product_StartFires
    \/ ScriptLoads
    \/ ScriptFails
    \/ Product_CompleteTimerFires
    \/ Product_Intersects
    \/ Product_LazyTimerFires
    \/ restartOptimization
    \/ Product_cleanup
    \/ JS_connectedCallback
    \/ JS_StartFires
    \/ JS_CompleteTimerFires
    \/ JS_Intersects
    \/ JS_VisTimerFires
    \/ JS_IdleFires
    \/ reoptimize
    \/ JS_cleanup

PageSpec == PageInit /\ [][PageNext]_vars

ProductNext ==
    \/ Product_connectedCallback
    \/ Product_StartFires
    \/ ScriptLoads
    \/ ScriptFails
    \/ Product_CompleteTimerFires
    \/ Product_Intersects
    \/ Product_LazyTimerFires
    \/ restartOptimization
    \/ Product_cleanup

ProductSpec == ProductInit /\ [][ProductNext]_vars

JSNext ==
    \/ ScriptLoads
    \/ ScriptFails
    \/ JS_connectedCallback
    \/ JS_StartFires
    \/ JS_CompleteTimerFires
    \/ JS_Intersects
    \/ JS_VisTimerFires
    \/ JS_IdleFires
    \/ reoptimize
    \/ JS_cleanup

JSSpec == JSInit /\ [][JSNext]_vars

(***************************************************************************)
(* Properties of the product page.                                         *)
(***************************************************************************)
SameHint(a, b) == a.rel = b.rel /\ a.href = b.href

\* C7: whatever passes, restarts and runs of the two optimizers the document
\* has seen, its head holds at most one hint link per (rel, href) pair; in
\* particular a hint that the page came with is never added a second time.
C7_HintsUnique ==
    \A i, j \in DOMAIN headLinks :
        SameHint(headLinks[i], headLinks[j]) => i = j

\* both optimizers have applied their hints, the product optimizer twice, on
\* a page that came with its own preload of the main bundle
C7_Witness ==
    /\ prod.starts >= 2
    /\ prod.throws = 0
    /\ js.starts >= 1
    /\ js.throws = 0
    /\ \E i \in DOMAIN headLinks : headLinks[i] = PagePreload
    /\ \E i \in DOMAIN headLinks : headLinks[i].opt

CatchEvents(events) == { i \in DOMAIN events : events[i].via = "catch" }

TimerEvents(events) == { i \in DOMAIN events : events[i].via = "timer" }

\* no record of an aborted pass equals the record of a pass that finished
Distinguishable(events) ==
    \A i \in CatchEvents(events), j \in TimerEvents(events) :
        events[i].detail # events[j].detail

\* C10: every setup exception of startSafeOptimization and startOptimization
\* dispatches a completion event in the step that throws, and the record of
\* that event differs from the record of every pass that finished without
\* a setup exception.
C10_SetupExceptionDegraded ==
    /\ Cardinality(CatchEvents(pEvents)) = prod.throws
    /\ Cardinality(CatchEvents(jEvents)) = js.throws
    /\ Distinguishable(pEvents)
    /\ Distinguishable(jEvents)

\* C11: restartOptimization() while the product optimizer has not completed,
\* and reoptimize() while the JS optimizer has not completed, change nothing:
\* no field of the optimizer, no timer, no element of the document.
C11_ReentrantNoOp ==
    [][ (\/ restartOptimization /\ ~prod.isLoaded
         \/ reoptimize /\ ~js.isLoaded)
        => UNCHANGED vars ]_vars

\* both optimizers are in the middle of a pass, with timers pending, and the
\* calls are possible
C11_Witness ==
    /\ prod.starts >= 1 /\ ~prod.isLoaded /\ pObservers > 0
    /\ js.starts >= 1 /\ ~js.isLoaded /\ jIdle > 0
    /\ restarts < MaxRestarts
    /\ reoptimizes < MaxReoptimizes
    /\ ENABLED restartOptimization
    /\ ENABLED reoptimize

\* C12: once the pass that restartOptimization() started has begun, the
\* failedScripts of the product optimizer holds no failure that a completion
\* record of an earlier pass already listed, and so the record of a pass
\* lists no failure that the record of an earlier pass lists.
C12_RestartResetsLoadState ==
    /\ (prod.pass > 1 /\ pStarts = 0) =>
           \A i \in DOMAIN pEvents :
               pEvents[i].pass < prod.pass =>
                   prod.failedScripts \cap pEvents[i].detail.failedScripts = {}
    /\ \A i, j \in DOMAIN pEvents :
           pEvents[i].pass < pEvents[j].pass =>
               pEvents[j].detail.failedScripts
                   \cap pEvents[i].detail.failedScripts = {}

(***************************************************************************)
(* The client-side navigation detector of wix-product-optimizer.js.        *)
(***************************************************************************)
NavCur ==
    [href |-> locationHref, lastUrl |-> lastUrl,
     navigationTimeout |-> navigationTimeout]

\* handleNavigation(), run by the 300 ms timer
handleNavigation(n) ==
    IF n.href # n.lastUrl
    THEN [n EXCEPT !.lastUrl = n.href,
                   !.navigationTimeout = [kind |-> "restart", url |-> n.href]]
    ELSE [n EXCEPT !.navigationTimeout = NoTimeout]

\* the MutationObserver callback: clearTimeout, then arm handleNavigation
MutationObserved(n) ==
    [n EXCEPT !.navigationTimeout = [kind |-> "handle", url |-> 0]]

\* history.pushState and the like: location.href changes
Navigate ==
    /\ locationHref < MaxNavigations
    /\ locationHref' = locationHref + 1
    /\ UNCHANGED << lastUrl, navigationTimeout, navObserved, navRestarted >>
    /\ UNCHANGED << hasIO, legacyReady, headLinks, scripts, prod, pStarts,
                    pRuns, pLazyTimers, pObservers, pEvents, restarts, js,
                    jStarts, jRuns, jVisTimers, jObservers, jIdle, jEvents,
                    reoptimizes, blogVars >>

MutationCallback ==
    /\ navigationTimeout' = MutationObserved(NavCur).navigationTimeout
    /\ UNCHANGED << locationHref, lastUrl, navObserved, navRestarted >>
    /\ UNCHANGED << hasIO, legacyReady, headLinks, scripts, prod, pStarts,
                    pRuns, pLazyTimers, pObservers, pEvents, restarts, js,
                    jStarts, jRuns, jVisTimers, jObservers, jIdle, jEvents,
                    reoptimizes, blogVars >>

\* the timer that navigationTimeout holds fires: handleNavigation, or the
\* restart callback (the document has finished loading: readyState is
\* 'complete'; the optimizer element is in the document once connected)
NavigationTimerFires ==
    /\ \/ /\ navigationTimeout.kind = "handle"
          /\ lastUrl' = handleNavigation(NavCur).lastUrl
          /\ navigationTimeout' = handleNavigation(NavCur).navigationTimeout
          /\ navObserved' =
                 IF locationHref # lastUrl /\ prod.connects > 0 /\ prod.isLoaded
                 THEN navObserved \cup {locationHref}
                 ELSE navObserved
          /\ UNCHANGED << navRestarted, headLinks, scripts, prod, pStarts,
                          pRuns, pLazyTimers, pObservers, pEvents, restarts,
                          js, jStarts, jRuns, jVisTimers, jObservers, jIdle,
                          jEvents >>
       \/ /\ navigationTimeout.kind = "restart"
          /\ navigationTimeout' = NoTimeout
          /\ IF prod.connects > 0
             THEN /\ \E pp \in BOOLEAN :
                        PCommit(Product_restartOptimization(PCur, pp))
                  /\ restarts' = IF prod.isLoaded THEN restarts + 1 ELSE restarts
                  /\ navRestarted' = navRestarted \cup {navigationTimeout.url}
             ELSE UNCHANGED << navRestarted, headLinks, scripts, prod, pStarts,
                               pRuns, pLazyTimers, pObservers, pEvents,
                               restarts, js, jStarts, jRuns, jVisTimers,
                               jObservers, jIdle, jEvents >>
          /\ UNCHANGED << lastUrl, navObserved >>
    /\ UNCHANGED << locationHref, hasIO, legacyReady, reoptimizes, blogVars >>

\* a page that carries the product optimizer and the navigation detector;
\* its only script is the main bundle
NavInit ==
    /\ BlogIdle
    /\ hasIO = TRUE
    /\ legacyReady = FALSE
    /\ headLinks = <<>>
    /\ scripts = << PageScript(UrlMain, FALSE) >>
    /\ \E pp \in BOOLEAN : PageStart(pp, FALSE)

NavNext ==
    \/ ProductNext
    \/ Navigate
    \/ MutationCallback
    \/ NavigationTimerFires

\* timers fire
NavSpec == NavInit /\ [][NavNext]_vars /\ WF_vars(NavigationTimerFires)

\* C13: every URL change that handleNavigation sees while a completed product
\* optimizer is in the document leads to a call of restartOptimization for
\* it, whatever mutation-observer callbacks arrive in between.
C13_NavigationRestarts ==
    \A u \in 1..MaxNavigations : (u \in navObserved) ~> (u \in navRestarted)

(***************************************************************************)
(* The product optimizer on a page with five scripts, where a pass reaches *)
(* the 80 % threshold twice.                                               *)
(***************************************************************************)
LongPageScripts ==
    << PageScript(UrlMain, FALSE),
       PageScript(Url(DirThunderbolt, FileCommons), FALSE),
       PageScript(UrlProGallery, FALSE),
       PageScript(Url(DirFormApp, FileFormApp), FALSE),
       PageScript(UrlSentry, FALSE) >>

LongPageInit ==
    /\ BlogIdle
    /\ hasIO = TRUE
    /\ legacyReady = FALSE
    /\ headLinks = <<>>
    /\ scripts = LongPageScripts
    /\ \E pp \in BOOLEAN : PageStart(pp, FALSE)

LongPageSpec == LongPageInit /\ [][ProductNext]_vars

\* C14: the product optimizer dispatches at most one completion event per
\* pass, however many completion timers the pass has scheduled and however
\* events, timers and setup exceptions interleave.
C14_OneEventPerPass ==
    \A i, j \in DOMAIN pEvents : pEvents[i].pass = pEvents[j].pass => i = j

\* the first pass has dispatched its event through one completion timer while
\* the timer that the last script event scheduled is still pending
C14_Witness ==
    /\ prod.pass = 1
    /\ prod.isLoaded
    /\ Len(pEvents) = 1
    /\ \E r \in DOMAIN pRuns :
          /\ pRuns[r].count = pRuns[r].total
          /\ pRuns[r].timers = 1

\* the scripts whose error event a listener of one of the runs has handled
MonitoredFailures(runs) ==
    { scripts[i].src : i \in { k \in DOMAIN scripts :
                                  /\ scripts[k].state = "failed"
                                  /\ \E r \in DOMAIN runs : k \notin runs[r].waiting } }

FailuresKept ==
    /\ MonitoredFailures(pRuns) \subseteq prod.failedScripts
    /\ MonitoredFailures(jRuns) \subseteq js.failedScripts
    /\ \A r \in DOMAIN pRuns :
          (prod.pass = 1 /\ pRuns[r].waiting = {} /\ pRuns[r].total > 0)
              => (prod.isLoaded \/ pRuns[r].timers > 0)
    /\ \A r \in DOMAIN jRuns :
          (jRuns[r].waiting = {} /\ jRuns[r].total > 0)
              => (js.isLoaded \/ jRuns[r].timers > 0)

FailuresReported ==
    /\ prod.failedScripts \subseteq prod'.failedScripts
    /\ js.failedScripts \subseteq js'.failedScripts
    /\ Len(pEvents') > Len(pEvents) =>
           prod.failedScripts \subseteq pEvents'[Len(pEvents')].detail.failedScripts
    /\ Len(jEvents') > Len(jEvents) =>
           js.failedScripts \subseteq jEvents'[Len(jEvents')].detail.failedScripts

\* C15: in both optimizers of the product page, the URL of every monitored
\* script whose error event has fired is in failedScripts and stays there, a
\* run whose scripts have all settled (by load or by error) completes or has
\* its completion timer pending, and the record of every completion event
\* lists every failure recorded before it.
C15_FailuresRecorded == []FailuresKept /\ [][FailuresReported]_vars

\* both optimizers have dispatched a completion event that lists a failure
C15_Witness ==
    /\ \E i \in DOMAIN pEvents : pEvents[i].detail.failedScripts # {}
    /\ \E i \in DOMAIN jEvents : jEvents[i].detail.failedScripts # {}

\* a page whose gallery bundle is an async script, so that enhanceExistingScripts
\* leaves it to deferHeavyComponents; beside it the main bundle
LazyPageScripts ==
    << PageScript(UrlProGallery, TRUE), PageScript(UrlMain, FALSE) >>

LazyPageInit ==
    /\ BlogIdle
    /\ hasIO \in BOOLEAN
    /\ legacyReady = FALSE
    /\ headLinks = <<>>
    /\ scripts = LazyPageScripts
    /\ \E pp \in BOOLEAN : PageStart(pp, FALSE)

\* the product optimizer alone, its timers firing
LazyPageSpec ==
    LazyPageInit /\ [][ProductNext]_vars /\ WF_vars(Product_LazyTimerFires)

\* C16: with and without IntersectionObserver, and whether or not an observed
\* element ever intersects, every script that a pass of the product
\* optimizer has marked data-lazy-load="true" eventually loses the mark.
C16_LazyFallback ==
    \A i \in DOMAIN LazyPageScripts : scripts[i].lazy ~> ~scripts[i].lazy

\* where IntersectionObserver is missing, the 2000 ms timer has run
\* loadLazyScripts and the gallery script has lost the mark it was given
C16_Witness ==
    /\ ~hasIO
    /\ \E i \in DOMAIN scripts :
          /\ scripts[i].tag = "lazy"
          /\ ~scripts[i].lazy
          /\ scripts[i].src \in prod.loadedScripts

(***************************************************************************)
(* isOptimizationComplete() of the blog and of the product optimizer.      *)
(***************************************************************************)
isOptimizationComplete == isLoaded

Product_isOptimizationComplete == prod.isLoaded

CompleteIffDispatched_Blog ==
    started >= 1 => (isOptimizationComplete <=> dispatched[started] > 0)

CompleteIffDispatched_Product ==
    Product_isOptimizationComplete
        <=> \E i \in DOMAIN pEvents : pEvents[i].pass = prod.pass

\* C17: isOptimizationComplete() is true exactly when the completion event of
\* the current pass has been dispatched: false from the start of every pass,
\* a re-run of the blog optimizer and a restart of the product optimizer
\* included, and true from the dispatch on.
C17_CompleteIffDispatched ==
    CompleteIffDispatched_Blog /\ CompleteIffDispatched_Product

\* C18: cleanup() of either optimizer removes the hint links that carry
\* data-wix-optimized="true" and nothing else: every other link stays, no
\* script element is removed or changed whatever its tag, and no field of
\* an optimizer and no timer changes.
C18_CleanupOnlyHints ==
    [][ (Product_cleanup \/ JS_cleanup) =>
            /\ headLinks' = SelectSeq(headLinks, LAMBDA l : ~l.opt)
            /\ UNCHANGED << scripts, prod, js, pStarts, pRuns, pLazyTimers,
                            pObservers, pEvents, jStarts, jRuns, jVisTimers,
                            jObservers, jIdle, jEvents >> ]_vars

\* cleanup has run after a pass that tagged a script: of the links only the
\* page's own preload is left
C18_Witness ==
    /\ prod.starts >= 1
    /\ prod.throws = 0
    /\ headLinks = << PagePreload >>
    /\ \E i \in DOMAIN scripts : scripts[i].tag # "none"

(***************************************************************************)
(* Order and concurrency of the loads of the blog optimizer.               *)
(***************************************************************************)
InFlight(p, urls) == { x \in inflight : x.pass = p /\ x.url \in Range(urls) }

IsMain(url) == url \in Range(mainScripts)

\* C19: within a pass the loads of the main scripts are sequential: at most
\* one of them is in flight, loadScript is called for them in list order,
\* and when it is called for one, the load of every earlier one has
\* resolved, by load or by error.
C19_CriticalSequential ==
    \A p \in Passes :
        /\ Cardinality(InFlight(p, mainScripts)) <= 1
        /\ LET crit == SelectSeq(calls[p], IsMain)
           IN  /\ Len(crit) <= Len(mainScripts)
               /\ crit = SubSeq(mainScripts, 1, Len(crit))
        /\ \A i, j \in DOMAIN mainScripts :
              (i < j /\ mainScripts[j] \in Range(calls[p]))
                  => Load(p, mainScripts[i]) \notin inflight

\* on a page without scripts of its own, the second main script is in flight
\* after the first one was loaded
C19_Witness ==
    /\ pageKind = "empty"
    /\ \E p \in Passes :
          /\ Load(p, mainScripts[Len(mainScripts)]) \in inflight
          /\ pc[p] = "crit_load"

BatchStarts == { i \in DOMAIN otherScripts : (i - 1) % batchSize = 0 }

\* C20: within a pass at most two loads of deferred scripts are in flight,
\* and when loadScript is called for a script of one batch, every script of
\* every earlier batch has been passed to loadScript and its load has
\* settled.
C20_BatchesJoined ==
    \A p \in Passes :
        /\ Cardinality(InFlight(p, deferredScripts)) <= batchSize
        /\ \A i, j \in BatchStarts :
              (i < j /\ \E u \in Range(Batch(j)) : u \in Range(calls[p]))
                  => \A m \in Range(Batch(i)) :
                         /\ m \in Range(calls[p])
                         /\ Load(p, m) \notin inflight

\* on a page without scripts of its own, the load of the second batch is in
\* flight after one of the two loads of the first batch failed
C20_Witness ==
    /\ pageKind = "empty"
    /\ \E p \in Passes :
          /\ pc[p] = "batch_load"
          /\ idx[p] > 1
          /\ InFlight(p, Batch(idx[p])) # {}
          /\ \E m \in Range(Batch(1)) : Load(p, m) \in failed


(***************************************************************************)
(* loadScript and the element it finds.                                    *)
(***************************************************************************)
\* the document holds a script element for exactly this URL that carries no
\* data-blog-optimized attribute
HoldsUnmarked(d, url) ==
    \E i \in DOMAIN AllScriptEls(d) :
        AllScriptEls(d)[i].src = url /\ ~AllScriptEls(d)[i].marked

\* the number of script elements for url that loadScript of pass p appended
CreatedBy(d, p, url) ==
    Cardinality({ i \in DOMAIN d.head :
                      d.head[i].src = url /\ d.head[i].by = p })

\* the calls of loadScript that pass p makes in this step
NewCalls(p) == SubSeq(calls'[p], Len(calls[p]) + 1, Len(calls'[p]))

\* a step in which a pass that is under way calls loadScript; the URLs called
\* in one step have different file names, so each call sees, for its own URL,
\* the document the step began with
LoadsMore(p) == calls[p] # <<>> /\ Len(calls'[p]) > Len(calls[p])

\* C21: loadScript(url) appends no element when the document holds an
\* unmarked script element for that same URL, and appends exactly one element
\* for url in every other case.
C21_SatisfiedIffPresent ==
    [][\A p \in Passes :
          LoadsMore(p) =>
              \A k \in DOMAIN NewCalls(p) :
                  LET url == NewCalls(p)[k]
                  IN  CreatedBy(doc', p, url) - CreatedBy(doc, p, url)
                          = IF HoldsUnmarked(doc, url) THEN 0 ELSE 1]_vars


(***************************************************************************)
(* A failed load and the rest of the pass.                                 *)
(***************************************************************************)
\* a pass that awaits the promise of a loadScript call awaits one that is
\* still pending: the load or error event of its element is yet to come
AwaitsPending(p) ==
    /\ pc[p] = "crit_load" => Pending(Cur, p, mainScripts[idx[p]])
    /\ pc[p] = "react_load" => Pending(Cur, p, reactScripts[idx[p]])
    /\ pc[p] = "batch_load" => BatchPending(Cur, p, idx[p])

\* what a pass reaches when nothing fails: every main and every deferred URL
\* has been passed to loadScript, and the completion event is out wherever
\* requestIdleCallback exists (without it no pass completes, failure or not)
RanThrough(p) ==
    /\ Range(mainScripts) \cup Range(deferredScripts) \subseteq Range(calls[p])
    /\ hasRIC => dispatched[p] >= 1

\* C22: a failed load does not block the pass: no pass is left awaiting a
\* promise that has been settled, by load or by error, and a pass in which a
\* critical script failed has, by the end of its pipeline, gone on to the
\* following critical scripts, to the deferred phase and to the completion
\* event, as a pass without a failure has.
C22_FailureNeverBlocks ==
    \A p \in Passes :
        /\ AwaitsPending(p)
        /\ \A m \in Range(mainScripts) :
              (Load(p, m) \in failed /\ PipelineEnded(p)) => RanThrough(p)

\* the first critical script of a pass has failed and the pass has loaded the
\* deferred scripts and dispatched its completion event
C22_Witness ==
    \E p \in Passes :
        /\ Load(p, mainScripts[1]) \in failed
        /\ RanThrough(p)
        /\ dispatched[p] = 1

(***************************************************************************)
(* No retry.                                                               *)
(***************************************************************************)
\* C23: within a pass loadScript is called at most once for each URL; in
\* particular a URL whose load has failed in the pass is not passed to
\* loadScript again in that pass.
C23_NoRetry ==
    \A p \in Passes :
        /\ \A i, j \in DOMAIN calls[p] : calls[p][i] = calls[p][j] => i = j
        /\ \A x \in failed :
              x.pass = p =>
                  Cardinality({ k \in DOMAIN calls[p] : calls[p][k] = x.url }) = 1

\* a load of a pass has failed and the pass has gone on through its last
\* batch and the on-demand scripts of a page with blog and form markers
C23_Witness ==
    \E p \in Passes : \E x \in failed :
        /\ x.pass = p
        /\ \E k \in DOMAIN trace[p] : trace[p][k] = "OptionalEvaluated"
        /\ UrlFormApp \in Range(calls[p])

(***************************************************************************)
(* The order of the deferred loads.                                        *)
(***************************************************************************)
\* C24: within a pass the deferred URLs are passed to loadScript in the order
\* of deferredScripts: when loadScript is called for a deferred URL, it has
\* been called before for every URL that precedes it in the list.
C24_DeferredInListOrder ==
    \A p \in Passes : \A k \in DOMAIN calls[p] :
        \A b \in DOMAIN deferredScripts :
            calls[p][k] = deferredScripts[b] =>
                \A a \in 1..(b - 1) : CalledBefore(p, deferredScripts[a], k)

\* a pass has issued its last batch after a member of the first batch failed
C24_Witness ==
    \E p \in Passes :
        /\ deferredScripts[Len(deferredScripts)] \in Range(calls[p])
        /\ \E x \in failed : x.pass = p /\ x.url \in Range(Batch(1))

(***************************************************************************)
(* What is left of a pass after restartOptimization.                       *)
(***************************************************************************)
\* C25: after restartOptimization has reset isLoaded, the product optimizer
\* dispatches a completion event only once the startSafeOptimization of the
\* restarted pass has run: when an event of pass n goes out,
\* startSafeOptimization has run at least n times.
C25_NoStaleCompletion ==
    [][Len(pEvents') > Len(pEvents) => prod'.starts >= prod'.pass]_vars

(***************************************************************************)
(* The classification tag of a script.  Both optimizers are on a page with *)
(* one script: the main bundle, the gallery bundle or sentry, with or      *)
(* without an async/defer attribute of its own.                            *)
(***************************************************************************)
TagPageInit ==
    /\ BlogIdle
    /\ hasIO = TRUE
    /\ legacyReady = FALSE
    /\ headLinks = <<>>
    /\ \E u \in {UrlMain, UrlProGallery, UrlSentry}, a \in BOOLEAN :
          scripts = << PageScript(u, a) >>
    /\ \E pp \in BOOLEAN : PageStart(pp, FALSE)

TagPageSpec == TagPageInit /\ [][PageNext]_vars

\* C26: once a script carries a data-wix-optimized tag, no step of either
\* optimizer changes the tag or removes the element.
C26_TagWriteOnce ==
    [][\A i \in DOMAIN scripts :
          scripts[i].tag # "none" =>
              /\ i \in DOMAIN scripts'
              /\ scripts'[i].src = scripts[i].src
              /\ scripts'[i].tag = scripts[i].tag]_vars

\* sentry was tagged by the product optimizer; since then the JS optimizer,
\* which would tag it low-priority, has started, completed and re-optimized,
\* and the product optimizer has been restarted and has started again
C26_Witness ==
    /\ scripts[1].src = UrlSentry
    /\ scripts[1].tag = "deferred"
    /\ js.starts >= 1
    /\ reoptimizes >= 1
    /\ prod.starts >= 2

(***************************************************************************)
(* The 80 % threshold.  The product optimizer is on a page with five       *)
(* scripts or with none; on a legacy engine the scripts that are loaded    *)
(* when monitorPerformance runs are counted by its initial check.          *)
(***************************************************************************)
ThresholdPageInit ==
    /\ BlogIdle
    /\ hasIO = TRUE
    /\ legacyReady \in BOOLEAN
    /\ headLinks = <<>>
    /\ scripts \in { <<>>, LongPageScripts }
    /\ \E pp \in BOOLEAN : PageStart(pp, FALSE)

ThresholdPageSpec == ThresholdPageInit /\ [][ProductNext]_vars

\* the run has counted, as loaded or failed, at least 80 % of the scripts it
\* found; the count of a run never goes down
CountedMost(run) == run.total > 0 /\ run.count * 100 >= 80 * run.total

\* a completion timer is pending only for a run that has counted 80 %, and on
\* a page without scripts every event comes from the catch block
TimersEarned ==
    /\ \A r \in DOMAIN pRuns : pRuns[r].timers > 0 => CountedMost(pRuns[r])
    /\ scripts = <<>> =>
          /\ \A r \in DOMAIN pRuns : pRuns[r].timers = 0
          /\ \A k \in DOMAIN pEvents : pEvents[k].via = "catch"

\* an event that does not come from the catch block is dispatched by the
\* completion timer of a run that had counted 80 %
EventsEarned ==
    (Len(pEvents') > Len(pEvents) /\ pEvents'[Len(pEvents')].via # "catch") =>
        \E r \in DOMAIN pRuns :
            /\ pRuns'[r].timers < pRuns[r].timers
            /\ CountedMost(pRuns[r])

\* C27: outside the catch block of startSafeOptimization, the product
\* optimizer dispatches a completion event only from a timer that a check of
\* a monitorPerformance run scheduled when the run had counted at least 80 %
\* of its scripts; a run that finds no script schedules no timer, and its
\* pass does not complete.
C27_ThresholdBeforeCompletion == []TimersEarned /\ [][EventsEarned]_vars

\* four of five scripts have been counted, the fifth has not, and the pass has
\* completed by the timer
C27_Witness ==
    /\ Len(pRuns) = 1
    /\ pRuns[1].total = 5
    /\ pRuns[1].count = 4
    /\ Len(pEvents) = 1
    /\ pEvents[1].via = "timer"

(***************************************************************************)
(* The lifetime of a WixJSOptimizer element: the element may be attached   *)
(* to the document again, and connectedCallback then runs once more.       *)
(***************************************************************************)
JS_connectedAgain ==
    /\ js.connects >= MaxConnects
    /\ js.connects < MaxConnects + MaxReconnects
    /\ PCommit([PCur EXCEPT !.js.connects = @ + 1, !.jStarts = @ + 1])
    /\ UNCHANGED << hasIO, legacyReady, restarts, reoptimizes, navVars, blogVars >>

JSLifeNext ==
    \/ JSNext
    \/ JS_connectedAgain

JSLifeSpec == JSInit /\ [][JSLifeNext]_vars

\* C28: in WixJSOptimizer isLoaded never goes from true back to false, and
\* the element dispatches 'wix-js-optimization-complete' at most once.
C28_CompleteOnce ==
    [](Len(jEvents) <= 1) /\ [][js.isLoaded => js'.isLoaded]_vars

\* connectedCallback has run twice and startOptimization twice, both runs of
\* monitorPerformance have counted every script and their timers have fired,
\* reoptimize has passed its guard, and one event is out
C28_Witness ==
    /\ js.connects = 2
    /\ js.starts = 2
    /\ Len(jRuns) = 2
    /\ \A r \in DOMAIN jRuns :
          jRuns[r].waiting = {} /\ jRuns[r].timers = 0
    /\ reoptimizes >= 1
    /\ js.isLoaded
    /\ Len(jEvents) = 1

(***************************************************************************)
(* The cleanup timer of the blog optimizer, where one pass runs.           *)
(***************************************************************************)
\* the cleanup timer of pass p has fired
CleanedUp(p) == dispatched[p] >= 1 /\ p \notin cleanupPending

\* no script that removeExistingScripts marked is left, and every main and
\* every deferred URL is the src of a script element
CleanDocument ==
    /\ \A i \in DOMAIN AllScriptEls(doc) : ~AllScriptEls(doc)[i].marked
    /\ \A u \in Range(mainScripts) \cup Range(deferredScripts) :
          \E i \in DOMAIN AllScriptEls(doc) : AllScriptEls(doc)[i].src = u

\* the step of the cleanup timer leaves every element that loadScript created
CleanupKeepsLoaded ==
    (started = 1 /\ cleanupPending' # cleanupPending /\ cleanupPending' = {}) =>
        \A u \in Range(calls[1]) :
            /\ CreatedBy(doc, 1, u) = 1
            /\ CreatedBy(doc', 1, u) = 1

\* C29: where a single pass runs, once its cleanup timer has fired no script
\* marked data-blog-optimized is left in the document, the cleanup has
\* removed no element that loadScript created in the pass, and every URL of
\* mainScripts and deferredScripts is still the src of a script element.
C29_CleanupRemovesOnlyMarked ==
    /\ []((started = 1 /\ CleanedUp(1)) => CleanDocument)
    /\ [][CleanupKeepsLoaded]_vars

\* the page came with a script for every URL, one pass has run, a load has
\* failed, and the cleanup timer has fired
C29_Witness ==
    /\ pageKind = "satisfied"
    /\ started = 1
    /\ CleanedUp(1)
    /\ failed # {}
    /\ Len(doc.head) >= Len(mainScripts) + Len(deferredScripts)

=============================================================================
